---------------------------- MODULE Spec2Model ----------------------------
(***************************************************************************)
(* A model of the maubot sed plugin (src/sed.go): the command parser and   *)
(* compiler, the substitution executor, the per-room history (author map   *)
(* and ring of recent events) guarded by one RWMutex, and MessageHandler.  *)
(*                                                                         *)
(* Text is modelled as a sequence of one-character strings.  Positions in  *)
(* the operators below are 0-based byte offsets as in the Go code; the     *)
(* character at offset p of s is s[p + 1].                                 *)
(***************************************************************************)
EXTENDS Integers, Sequences, FiniteSets, TLC

(***************************************************************************)
(* Bounds of the model.                                                    *)
(***************************************************************************)
\* longest pattern source drawn in the executor specification
MaxPat == 3
\* longest body drawn in the executor specification
MaxBody == 3
\* longest pattern source drawn in the parser specification
MaxParsePat == 2
\* events delivered, and MessageHandler calls in progress at once, in Spec
MaxMsgs == 3
MaxInFlight == 2
\* events delivered, one call at a time, in SeqSpec
MaxSeqMsgs == 12
\* commands among the events of SeqSpec
MaxSeqCmds == 1

(***************************************************************************)
(* Text helpers (package strings).                                         *)
(***************************************************************************)
Lower == <<"a","b","c","d","e","f","g","h","i","j","k","l","m",
           "n","o","p","q","r","s","t","u","v","w","x","y","z">>
Upper == <<"A","B","C","D","E","F","G","H","I","J","K","L","M",
           "N","O","P","Q","R","S","T","U","V","W","X","Y","Z">>

\* unicode.ToLower on one ASCII character
ToLowerChar(c) ==
  IF \E k \in 1..26 : Upper[k] = c
    THEN Lower[CHOOSE k \in 1..26 : Upper[k] = c]
    ELSE c

\* strings.ToLower
ToLower(s) == [k \in 1..Len(s) |-> ToLowerChar(s[k])]

\* s[from:to], 0-based, to exclusive
Slice(s, from, to) == [k \in 1..(to - from) |-> s[from + k]]

\* whether sub occurs in s at 0-based offset p
OccursAt(s, sub, p) ==
  /\ p >= 0
  /\ p + Len(sub) <= Len(s)
  /\ \A k \in 1..Len(sub) : s[p + k] = sub[k]

\* strings.Index: the first offset of sub in s, or -1
Index(s, sub) ==
  IF \E p \in 0..Len(s) : OccursAt(s, sub, p)
    THEN CHOOSE p \in 0..Len(s) :
           /\ OccursAt(s, sub, p)
           /\ \A q \in 0..(p - 1) : ~OccursAt(s, sub, q)
    ELSE -1

\* strings.ContainsRune
ContainsRune(s, c) == \E k \in 1..Len(s) : s[k] = c

(***************************************************************************)
(* package regexp, for the pattern sources the model draws: a pattern is   *)
(* a concatenation of literals, '.', and the escapes \b \B \A \a and       *)
(* escaped punctuation.  A '(' is never closed in these sources (they hold *)
(* no ')'), so it is a compile error, as is a trailing backslash or an     *)
(* escaped letter that Go does not know.                                   *)
(***************************************************************************)
WordChars == {Lower[k] : k \in 1..26} \cup {Upper[k] : k \in 1..26}
               \cup {"0","1","2","3","4","5","6","7","8","9","_"}

IsWordChar(c) == c \in WordChars

\* the atom an escape \c compiles to, or an error
EscapeAtom(c) ==
  CASE c = "b" -> [kind |-> "wb", ch |-> ""]
    [] c = "B" -> [kind |-> "nwb", ch |-> ""]
    [] c = "A" -> [kind |-> "bot", ch |-> ""]
    [] c = "a" -> [kind |-> "lit", ch |-> "BEL"]
    [] c \notin WordChars -> [kind |-> "lit", ch |-> c]
    [] OTHER -> [kind |-> "bad", ch |-> c]

RECURSIVE ParseAtoms(_, _)
\* the atoms of src from 1-based index k on; a "bad" atom marks a syntax error
ParseAtoms(src, k) ==
  IF k > Len(src) THEN <<>>
  ELSE IF src[k] = "\\"
    THEN IF k = Len(src)
           THEN <<[kind |-> "bad", ch |-> "\\"]>>
           ELSE <<EscapeAtom(src[k + 1])>> \o ParseAtoms(src, k + 2)
  ELSE IF src[k] = "("
    THEN <<[kind |-> "bad", ch |-> "("]>>
  ELSE IF src[k] = "."
    THEN <<[kind |-> "any", ch |-> ""]>> \o ParseAtoms(src, k + 1)
  ELSE <<[kind |-> "lit", ch |-> src[k]]>> \o ParseAtoms(src, k + 1)

\* regexp.Compile: [ok, prog, err]; err is the compiler's message
RegexpCompile(src) ==
  LET atoms == ParseAtoms(src, 1)
      bad == {k \in 1..Len(atoms) : atoms[k].kind = "bad"}
  IN IF bad = {}
       THEN [ok |-> TRUE, prog |-> atoms, err |-> ""]
       ELSE LET b == atoms[CHOOSE k \in bad : TRUE]
            IN [ok |-> FALSE, prog |-> <<>>,
                err |-> IF b.ch = "(" THEN "missing closing )"
                        ELSE IF b.ch = "\\" THEN "trailing backslash at end of expression"
                        ELSE "invalid escape sequence"]

\* the character before / after offset p, "" at the ends of the text
CharBefore(s, p) == IF p >= 1 THEN s[p] ELSE ""
CharAfter(s, p) == IF p < Len(s) THEN s[p + 1] ELSE ""

\* syntax.EmptyOpContext: whether offset p of s is at a word boundary
AtWordBoundary(s, p) == IsWordChar(CharBefore(s, p)) # IsWordChar(CharAfter(s, p))

RECURSIVE MatchFrom(_, _, _, _)
\* the end offset of the match of atoms k.. of prog at offset p of s, or -1
MatchFrom(prog, k, s, p) ==
  IF k > Len(prog) THEN p
  ELSE LET a == prog[k] IN
    CASE a.kind = "lit" ->
           IF p < Len(s) /\ s[p + 1] = a.ch THEN MatchFrom(prog, k + 1, s, p + 1) ELSE -1
      [] a.kind = "any" ->
           IF p < Len(s) /\ s[p + 1] # "\n" THEN MatchFrom(prog, k + 1, s, p + 1) ELSE -1
      [] a.kind = "wb" ->
           IF AtWordBoundary(s, p) THEN MatchFrom(prog, k + 1, s, p) ELSE -1
      [] a.kind = "nwb" ->
           IF ~AtWordBoundary(s, p) THEN MatchFrom(prog, k + 1, s, p) ELSE -1
      [] a.kind = "bot" ->
           IF p = 0 THEN MatchFrom(prog, k + 1, s, p) ELSE -1
      [] OTHER -> -1

\* the end offset of the match of prog that starts at offset p of s, or -1
MatchAt(prog, s, p) == MatchFrom(prog, 1, s, p)

\* Regexp.doExecute from pos: <<start, end>> of the leftmost match, or <<>>
FindFrom(prog, s, pos) ==
  LET starts == {p \in pos..Len(s) : MatchAt(prog, s, p) # -1}
  IN IF starts = {} THEN <<>>
     ELSE LET p == CHOOSE x \in starts : \A y \in starts : x <= y
          IN <<p, MatchAt(prog, s, p)>>

IsNameChar(c) == IsWordChar(c)

RECURSIVE NameEnd(_, _)
\* the 1-based index after the longest name that starts at index k of t
NameEnd(t, k) == IF k <= Len(t) /\ IsNameChar(t[k]) THEN NameEnd(t, k + 1) ELSE k

RECURSIVE Expand(_, _, _)
\* Regexp.expand from index k of the template: $$ is a dollar, $name is the
\* named or numbered group (only group 0, the match, exists in the modelled
\* patterns; any other name renders empty), a lone $ is text
Expand(t, k, match) ==
  IF k > Len(t) THEN <<>>
  ELSE IF t[k] # "$" THEN <<t[k]>> \o Expand(t, k + 1, match)
  ELSE IF k < Len(t) /\ t[k + 1] = "$" THEN <<"$">> \o Expand(t, k + 2, match)
  ELSE LET e == NameEnd(t, k + 1) IN
         IF e = k + 1 THEN <<"$">> \o Expand(t, k + 1, match)
         ELSE (IF Slice(t, k, e - 1) = <<"0">> THEN match ELSE <<>>)
                \o Expand(t, e, match)

RECURSIVE ReplaceAllLoop(_, _, _, _, _, _)
\* Regexp.replaceAll with repl = the expanded template: the loop from
\* searchPos, having copied src up to lastMatchEnd into buf
ReplaceAllLoop(prog, src, repl, searchPos, lastMatchEnd, buf) ==
  IF searchPos > Len(src) THEN buf \o Slice(src, lastMatchEnd, Len(src))
  ELSE LET a == FindFrom(prog, src, searchPos) IN
    IF a = <<>> THEN buf \o Slice(src, lastMatchEnd, Len(src))
    ELSE LET copied == buf \o Slice(src, lastMatchEnd, a[1])
             out == IF a[2] > lastMatchEnd \/ a[1] = 0
                      THEN copied \o Expand(repl, 1, Slice(src, a[1], a[2]))
                      ELSE copied
             width == IF searchPos < Len(src) THEN 1 ELSE 0
             next == IF searchPos + width > a[2] THEN searchPos + width
                     ELSE IF searchPos + 1 > a[2] THEN searchPos + 1
                     ELSE a[2]
         IN ReplaceAllLoop(prog, src, repl, next, a[2], out)

\* Regexp.ReplaceAllString
ReplaceAllString(prog, src, repl) == ReplaceAllLoop(prog, src, repl, 0, 0, <<>>)


(***************************************************************************)
(* SedStatement and Exec.                                                  *)
(***************************************************************************)
\* a nil *SedStatement
NilSed == [nil |-> TRUE, Find |-> <<>>, Replace |-> <<>>, Global |-> FALSE]

\* &SedStatement{Find, Replace, Global}
MkSed(find, replace, global) ==
  [nil |-> FALSE, Find |-> find, Replace |-> replace, Global |-> global]

RECURSIVE ReplaceFuncLoop(_, _, _, _, _, _, _)
\* Regexp.ReplaceAllStringFunc with the closure of Exec's else branch:
\* replacedOne is the closure's captured flag
ReplaceFuncLoop(prog, src, repl, searchPos, lastMatchEnd, buf, replacedOne) ==
  IF searchPos > Len(src) THEN buf \o Slice(src, lastMatchEnd, Len(src))
  ELSE LET a == FindFrom(prog, src, searchPos) IN
    IF a = <<>> THEN buf \o Slice(src, lastMatchEnd, Len(src))
    ELSE LET copied == buf \o Slice(src, lastMatchEnd, a[1])
             called == a[2] > lastMatchEnd \/ a[1] = 0
             match == Slice(src, a[1], a[2])
             out == IF ~called THEN copied
                    ELSE IF replacedOne THEN copied \o match
                    ELSE copied \o ReplaceAllString(prog, match, repl)
             width == IF searchPos < Len(src) THEN 1 ELSE 0
             next == IF searchPos + width > a[2] THEN searchPos + width
                     ELSE IF searchPos + 1 > a[2] THEN searchPos + 1
                     ELSE a[2]
         IN ReplaceFuncLoop(prog, src, repl, next, a[2], out, replacedOne \/ called)

\* Exec with the Global flag ignored: the first match only, always
ExecFirstOnly(sed, body) ==
  ReplaceFuncLoop(sed.Find, body, sed.Replace, 0, 0, <<>>, FALSE)

\* SedStatement.Exec
Exec(sed, body) ==
  IF sed.Global
    THEN ReplaceAllString(sed.Find, body, sed.Replace)
    ELSE ReplaceFuncLoop(sed.Find, body, sed.Replace, 0, 0, <<>>, FALSE)

(***************************************************************************)
(* Parsing: ParseEvent and its helpers.  An event is a record with the     *)
(* fields RoomID, Sender, ID, Body, ReplyTo and Passive; Passive is        *)
(* evt.Unsigned.PassiveCommand, the set of its <<name, Captured>> entries  *)
(* (the nil map is the empty set).                                         *)
(***************************************************************************)
CommandShortSed == "net.maunium.sed.short"
CommandLongSed == "net.maunium.sed.long"

\* the literal "sed s"
SedS == <<"s", "e", "d", " ", "s">>

\* a nil *regexp.Regexp / the finder built for one separator
NilFinder == [nil |-> TRUE, sep |-> ""]
MkFinder(sep) == [nil |-> FALSE, sep |-> sep]

\* Sed.findFullStatement
findFullStatement(evt) ==
  LET index == Index(ToLower(evt.Body), SedS) IN
    IF index = -1 \/ index + Len(SedS) + 3 > Len(evt.Body)
      THEN NilFinder
      ELSE MkFinder(evt.Body[index + Len(SedS) + 1])

\* One way through a group (.*?[^\\]?) that starts at offset q: way k lets
\* .*? take k \div 2 characters and, for even k, [^\\]? take one more.  The
\* engine prefers smaller k.
SegEnd(q, k) == q + (k \div 2) + (IF k % 2 = 0 THEN 1 ELSE 0)

SegOK(s, q, k) ==
  /\ SegEnd(q, k) <= Len(s)
  /\ \A j \in q..(q + (k \div 2) - 1) : s[j + 1] # "\n"
  /\ (k % 2 = 0) => s[SegEnd(q, k)] # "\\"

SegWays(s, q) == 0..(2 * (Len(s) - q) + 1)

\* the preferred way of the set ways, or -1
FirstWay(ways) ==
  IF ways = {} THEN -1 ELSE CHOOSE k \in ways : \A j \in ways : k <= j

\* the way the second group takes from offset q: the separator must follow
\* (the optional flags group after it always matches)
Seg2Way(s, sep, q) ==
  FirstWay({k \in SegWays(s, q) : SegOK(s, q, k) /\ CharAfter(s, SegEnd(q, k)) = sep})

\* the way the first group takes from offset q: the separator and a
\* matching second group must follow
Seg1Way(s, sep, q) ==
  FirstWay({k \in SegWays(s, q) :
              /\ SegOK(s, q, k)
              /\ CharAfter(s, SegEnd(q, k)) = sep
              /\ Seg2Way(s, sep, SegEnd(q, k) + 1) # -1})

RECURSIVE FlagsEnd(_, _)
\* ([gi]+)? from offset p: the end of the longest run of g and i
FlagsEnd(s, p) ==
  IF p < Len(s) /\ s[p + 1] \in {"g", "i"} THEN FlagsEnd(s, p + 1) ELSE p

\* whether the finder matches s starting at offset p
FinderMatchesAt(s, sep, p) ==
  /\ OccursAt(s, SedS \o <<sep>>, p)
  /\ Seg1Way(s, sep, p + Len(SedS) + 1) # -1

\* finder.FindStringSubmatch(s) for the finder
\*   sed s<sep>(.*?[^\\]?)<sep>(.*?[^\\]?)<sep>([gi]+)?
\* the whole match and the three groups, or the empty list
FindStringSubmatch(finder, s) ==
  LET sep == finder.sep
      starts == {p \in 0..Len(s) : FinderMatchesAt(s, sep, p)}
  IN IF starts = {} THEN <<>>
     ELSE LET p == CHOOSE x \in starts : \A y \in starts : x <= y
              q1 == p + Len(SedS) + 1
              e1 == SegEnd(q1, Seg1Way(s, sep, q1))
              q2 == e1 + 1
              e2 == SegEnd(q2, Seg2Way(s, sep, q2))
              q3 == e2 + 1
              e3 == FlagsEnd(s, q3)
          IN <<Slice(s, p, e3), Slice(s, q1, e1), Slice(s, q2, e2), Slice(s, q3, e3)>>

\* the (statement, error) pair the parsing functions return
ParseResult(sed, err) == [sed |-> sed, err |-> err]

\* fmt.Errorf("failed to compile regex: %v", err)
CompileError(err) == <<"failed to compile regex: ", err>>

\* Sed.compileStatement
compileStatement(evt, finder) ==
  LET match == FindStringSubmatch(finder, evt.Body) IN
    IF Len(match) # 4 THEN ParseResult(NilSed, <<>>)
    ELSE LET regex == RegexpCompile(match[2]) IN
      IF ~regex.ok THEN ParseResult(NilSed, CompileError(regex.err))
      ELSE ParseResult(MkSed(regex.prog, match[3], ContainsRune(match[4], "g")), <<>>)

\* the lookup evt.Unsigned.PassiveCommand[name]: whether the key is present,
\* and the Captured list of its value
HasCommand(passive, name) == \E e \in passive : e[1] = name
Captured(passive, name) == (CHOOSE e \in passive : e[1] = name)[2]

\* Sed.compilePassiveStatement
compilePassiveStatement(evt) ==
  IF evt.Passive = {} THEN ParseResult(NilSed, <<>>)
  ELSE IF ~HasCommand(evt.Passive, CommandShortSed)
          /\ ~HasCommand(evt.Passive, CommandLongSed)
    THEN ParseResult(NilSed, <<>>)
  ELSE LET captured == IF HasCommand(evt.Passive, CommandShortSed)
                         THEN Captured(evt.Passive, CommandShortSed)
                         ELSE Captured(evt.Passive, CommandLongSed)
       IN IF Len(captured) = 0 \/ Len(captured[1]) # 6
            THEN ParseResult(NilSed, <<>>)
            ELSE LET match == captured[1]
                     regex == RegexpCompile(match[4])
                 IN IF ~regex.ok THEN ParseResult(NilSed, CompileError(regex.err))
                    ELSE ParseResult(MkSed(regex.prog, match[5],
                                           ContainsRune(match[6], "g")), <<>>)

\* Sed.ParseEvent
ParseEvent(evt) ==
  LET passive == compilePassiveStatement(evt) IN
    IF passive.err # <<>> THEN ParseResult(NilSed, passive.err)
    ELSE IF ~passive.sed.nil THEN passive
    ELSE LET finder == findFullStatement(evt) IN
      IF finder.nil THEN ParseResult(NilSed, <<>>)
      ELSE LET full == compileStatement(evt, finder) IN
        IF full.err # <<>> THEN ParseResult(NilSed, full.err)
        ELSE IF ~full.sed.nil THEN full
        ELSE ParseResult(NilSed, <<>>)


(***************************************************************************)
(* State.                                                                  *)
(***************************************************************************)
VARIABLES
  events,          \* the events delivered so far; an event's ID is its index
  hs,              \* hs[h]: the MessageHandler call for events[h]
  prevEventMap,    \* bot.prevEventMap
  prevEventQueue,  \* bot.prevEventQueue
  readerCount,     \* bot.prevEventLock: the read locks held
  writer,          \* bot.prevEventLock: the call in Lock() or holding it, or 0
  replies,         \* the replies emitted through Event.Reply, in order
  recLog,          \* history: per room, the IDs recorded, in order
  pin,             \* the input of a pure specification
  pstage,          \* the stage of a pure specification
  pout             \* the result of a pure specification

vars == <<events, hs, prevEventMap, prevEventQueue, readerCount, writer,
          replies, recLog, pin, pstage, pout>>

handlerVars == <<events, hs, prevEventMap, prevEventQueue, readerCount, writer,
                 replies, recLog>>

pureVars == <<pin, pstage, pout>>

\* len(eq.List), set by NewEventQueue
ListLen == 10

Rooms == {"r1", "r2"}
Users == {"u1", "u2"}

\* the Sed value Plugin.Create returns, before any event
InitHandlers ==
  /\ events = <<>>
  /\ hs = <<>>
  /\ prevEventMap = [r \in Rooms |-> [ok |-> FALSE, m |-> [u \in Users |-> 0]]]
  /\ prevEventQueue =
       [r \in Rooms |-> [ok |-> FALSE, List |-> [k \in 1..ListLen |-> 0], Ptr |-> 0]]
  /\ readerCount = 0
  /\ writer = 0
  /\ replies = <<>>
  /\ recLog = [r \in Rooms |-> <<>>]

InitPureIdle ==
  /\ pin = [kind |-> "none"]
  /\ pstage = "none"
  /\ pout = [kind |-> "none"]

(***************************************************************************)
(* The executor on its own: a statement and a body are drawn, Exec runs.   *)
(***************************************************************************)
\* all texts over chars of length at most n
RECURSIVE TextsUpTo(_, _)
TextsUpTo(chars, n) ==
  IF n = 0 THEN {<<>>}
  ELSE LET shorter == TextsUpTo(chars, n - 1)
       IN shorter \cup {Append(t, c) : t \in shorter, c \in chars}

ExecPatChars == {"a", ".", "\\", "B"}
ExecBodyChars == {"a", "b", " "}
ExecReplacements == {<<>>, <<"x">>, <<"a", "a">>, <<"$", "0", "$", "0">>}

ExecPatterns == {p \in TextsUpTo(ExecPatChars, MaxPat) : RegexpCompile(p).ok}

InitExec ==
  /\ InitHandlers
  /\ pin \in [src : ExecPatterns, Replace : ExecReplacements,
              Global : BOOLEAN, body : TextsUpTo(ExecBodyChars, MaxBody)]
  /\ pstage = "input"
  /\ pout = <<>>

\* the statement the input describes
PinSed == MkSed(RegexpCompile(pin.src).prog, pin.Replace, pin.Global)

RunExec ==
  /\ pstage = "input"
  /\ pout' = Exec(PinSed, pin.body)
  /\ pstage' = "executed"
  /\ UNCHANGED <<pin, handlerVars>>

NextExec == RunExec

ExecSpec == InitExec /\ [][NextExec]_vars

(***************************************************************************)
(* The parser on its own: a command text is drawn and wrapped in an event, *)
(* ParseEvent runs, and the statement it yields runs on a target body.     *)
(* The host's passive matcher is outside this repository: when it matched, *)
(* the event carries one Captured entry, of which the code reads elements  *)
(* 3, 4 and 5 (pattern, replacement, flags) after checking that there are  *)
(* six.                                                                    *)
(***************************************************************************)
ParsePatChars == {"a", "(", ".", "\\", "B"}
ParseDelims == {"/", "#"}
ParseFlags == {<<>>, <<"g">>, <<"i">>, <<"g", "i">>, <<"i", "g">>}
ParseReplacements == {<<>>, <<"b">>}
ParsePrefixes == {<<>>, <<"o", "k", " ">>}
ParseSuffixes == {<<>>, <<" ", "n">>}
ParseTargets == {<<"A">>, <<"a", "a">>}

\* the token that opens the command
FormToken(form) ==
  CASE form = "short" -> <<"s">>
    [] form = "long" -> SedS
    [] form = "LONG" -> <<"S", "E", "D", " ", "s">>

\* the text <token><D>P<D>R<D>F
CommandText(in) ==
  FormToken(in.form) \o <<in.D>> \o in.P \o <<in.D>> \o in.R \o <<in.D>> \o in.F

\* the message body around the command
InputBody(in) == in.pre \o CommandText(in) \o in.suf

\* what the host's matcher attaches to the event
InputPassive(in) ==
  LET name == IF in.form = "short" THEN CommandShortSed ELSE CommandLongSed IN
    CASE in.path = "raw" -> {}
      [] in.path = "host" ->
           {<<name, << <<InputBody(in), CommandText(in), in.D, in.P, in.R, in.F>> >> >>}
      [] in.path = "host5" ->
           {<<name, << <<CommandText(in), in.D, in.P, in.R, in.F>> >> >>}

InputEvent(in) ==
  [RoomID |-> "r1", Sender |-> "u1", ID |-> 1, Body |-> InputBody(in),
   ReplyTo |-> 0, Passive |-> InputPassive(in)]

ParseInputs ==
  {in \in [form : {"short", "long", "LONG"}, D : ParseDelims,
           P : TextsUpTo(ParsePatChars, MaxParsePat), R : ParseReplacements,
           F : ParseFlags, pre : ParsePrefixes, suf : ParseSuffixes,
           path : {"raw", "host", "host5"}, target : ParseTargets] :
     /\ in.form = "short" => in.pre = <<>> /\ in.suf = <<>>
     /\ in.form = "LONG" => in.path = "raw"}

InitParse ==
  /\ InitHandlers
  /\ pin \in ParseInputs
  /\ pstage = "input"
  /\ pout = [res |-> ParseResult(NilSed, <<>>), out |-> <<>>]

RunParse ==
  /\ pstage = "input"
  /\ pout' = [pout EXCEPT !.res = ParseEvent(InputEvent(pin))]
  /\ pstage' = "parsed"
  /\ UNCHANGED <<pin, handlerVars>>

RunParsedExec ==
  /\ pstage = "parsed"
  /\ ~pout.res.sed.nil
  /\ pout' = [pout EXCEPT !.out = Exec(pout.res.sed, pin.target)]
  /\ pstage' = "executed"
  /\ UNCHANGED <<pin, handlerVars>>

NextParse == RunParse \/ RunParsedExec

ParseSpec == InitParse /\ [][NextParse]_vars

(***************************************************************************)
(* MessageHandler.  The host calls it once per event, possibly while other *)
(* calls are in progress.  hs[h].pc is the place of call h in the code;    *)
(* reads and writes of the ring outside the lock are separate steps.       *)
(***************************************************************************)
Handlers == 1..Len(hs)

\* the state of a call that has just been made for an event
NewHandler ==
  [pc |-> "start", sed |-> NilSed, err |-> <<>>, origEvt |-> 0, fetchId |-> 0,
   origPtr |-> 0, i |-> 0, tried |-> <<>>, looked |-> FALSE,
   result |-> "", rl |-> 0, snap |-> {}]

\* the message bodies and passive matches the handler specifications deliver
BodyPlain == <<"a">>
BodyOther == <<"c">>
BodyLong == <<"s", "e", "d", " ", "s", "/", "a", "/", "b", "/">>
BodyBad == <<"s", "e", "d", " ", "s", "/", "(", "/", "b", "/">>
BodyShortBad == <<"s", "/", "(", "/", "c", "/">>

ShortPassive(body, pattern, replacement) ==
  {<<CommandShortSed, << <<body, body, "/", pattern, replacement, <<>> >> >> >>}

\* reads: whether MessageHandler reads the event's reply-to reference
ContentPlain == [Body |-> BodyPlain, Passive |-> {}, reads |-> FALSE]
ContentOther == [Body |-> BodyOther, Passive |-> {}, reads |-> FALSE]
ContentLong == [Body |-> BodyLong, Passive |-> {}, reads |-> TRUE]
ContentBad == [Body |-> BodyBad, Passive |-> {}, reads |-> FALSE]
ContentShortBad ==
  [Body |-> BodyShortBad, Passive |-> ShortPassive(BodyShortBad, <<"(">>, <<"c">>),
   reads |-> FALSE]

Contents == {ContentPlain, ContentLong, ContentBad, ContentShortBad}

InFlight == Cardinality({h \in Handlers : hs[h].pc # "done"})

\* Rooms and users are named in the order in which they first appear.
RoomOrder == <<"r1", "r2">>
UserOrder == <<"u1", "u2">>

SeenRooms == {events[k].RoomID : k \in 1..Len(events)}
SeenUsers == {events[k].Sender : k \in 1..Len(events)}

\* the names of order that have appeared, and the first that has not
NextNames(order, seen) ==
  {order[k] : k \in {j \in 1..Len(order) : \A l \in 1..(j - 1) : order[l] \in seen}}

\* the host delivers an event and calls MessageHandler for it
DeliverEvent(room, sender, content, replyTo) ==
  /\ events' = Append(events,
                 [RoomID |-> room, Sender |-> sender, ID |-> Len(events) + 1,
                  Body |-> content.Body, ReplyTo |-> replyTo,
                  Passive |-> content.Passive])
  /\ hs' = Append(hs, NewHandler)
  /\ UNCHANGED <<prevEventMap, prevEventQueue, readerCount, writer, replies,
                 recLog, pureVars>>

Deliver ==
  /\ Len(events) < MaxMsgs
  /\ InFlight < MaxInFlight
  /\ \E room \in NextNames(RoomOrder, SeenRooms),
        sender \in NextNames(UserOrder, SeenUsers), content \in Contents :
       \E replyTo \in IF content.reads THEN 0..Len(events) ELSE {0} :
         DeliverEvent(room, sender, content, replyTo)

\* the commands delivered so far
Commands == {k \in 1..Len(events) : events[k].Body \notin {BodyPlain, BodyOther}}

\* SeqSpec: one room, one sender, one call at a time
DeliverSeq ==
  /\ Len(events) < MaxSeqMsgs
  /\ InFlight = 0
  /\ \E content \in {ContentPlain, ContentOther, ContentLong} :
       /\ content = ContentLong => Cardinality(Commands) < MaxSeqCmds
       /\ DeliverEvent("r1", "u1", content, 0)

\* Event.Reply: a reply by call h to event `to`
Reply(h, to, body) == replies' = Append(replies, [by |-> h, to |-> to, body |-> body])

\* client.GetEvent: the event of that room with that ID, or nil (0) when the
\* server has none or the fetch fails
GetEvent(roomID, eventID) ==
  {0} \cup {id \in 1..Len(events) : id = eventID /\ events[id].RoomID = roomID}

\* call h with the statement and error of its event filled in
Parsed(h, parsed) == [hs[h] EXCEPT !.sed = parsed.sed, !.err = parsed.err]

\* AfterParse when the reply-to reference is not read: every command goes to
\* the sender's last message
AfterParseIgnoresReplyTo(h, parsed) ==
  /\ IF parsed.sed.nil
       THEN /\ hs' = [hs EXCEPT ![h] =
                        [Parsed(h, parsed) EXCEPT !.result = "Continue", !.pc = "reg"]]
            /\ UNCHANGED replies
       ELSE IF parsed.err # <<>>
         THEN /\ Reply(h, events[h].ID, parsed.err)
              /\ hs' = [hs EXCEPT ![h] =
                          [Parsed(h, parsed) EXCEPT !.result = "StopEventPropagation",
                                                    !.pc = "reg"]]
       ELSE /\ hs' = [hs EXCEPT ![h] = [Parsed(h, parsed) EXCEPT !.pc = "gp_rlock"]]
            /\ UNCHANGED replies

\* MessageHandler, lines 247-259, given what ParseEvent returned: the early
\* returns, then the choice of the candidate source
AfterParse(h, parsed) ==
  /\ IF parsed.sed.nil
       THEN /\ hs' = [hs EXCEPT ![h] =
                        [Parsed(h, parsed) EXCEPT !.result = "Continue", !.pc = "reg"]]
            /\ UNCHANGED replies
       ELSE IF parsed.err # <<>>
         THEN /\ Reply(h, events[h].ID, parsed.err)
              /\ hs' = [hs EXCEPT ![h] =
                          [Parsed(h, parsed) EXCEPT !.result = "StopEventPropagation",
                                                    !.pc = "reg"]]
       ELSE IF events[h].ReplyTo > 0
         THEN /\ hs' = [hs EXCEPT ![h] =
                          [Parsed(h, parsed) EXCEPT !.fetchId = events[h].ReplyTo,
                                                    !.pc = "fetch"]]
              /\ UNCHANGED replies
       ELSE /\ hs' = [hs EXCEPT ![h] = [Parsed(h, parsed) EXCEPT !.pc = "gp_rlock"]]
            /\ UNCHANGED replies

\* Start when RegisterPrevEvent is called on entry instead of deferred: the
\* event is in the author map and in the ring before it is resolved
StartRecordsFirst(h) ==
  LET evt == events[h]
      roomMap == prevEventMap[evt.RoomID]
      queue == prevEventQueue[evt.RoomID]
  IN /\ hs[h].pc = "start"
     /\ AfterParse(h, ParseEvent(events[h]))
     /\ prevEventMap' = [prevEventMap EXCEPT ![evt.RoomID] =
                           [ok |-> TRUE, m |-> [roomMap.m EXCEPT ![evt.Sender] = evt.ID]]]
     /\ prevEventQueue' = [prevEventQueue EXCEPT ![evt.RoomID] =
                             [ok |-> TRUE,
                              List |-> [queue.List EXCEPT ![queue.Ptr + 1] = evt.ID],
                              Ptr |-> (queue.Ptr + 1) % ListLen]]
     /\ recLog' = [recLog EXCEPT ![evt.RoomID] = Append(@, evt.ID)]
     /\ UNCHANGED <<events, readerCount, writer, pureVars>>

\* MessageHandler, lines 244-259: parse, then choose the candidate source
Start(h) ==
  /\ hs[h].pc = "start"
  /\ AfterParse(h, ParseEvent(events[h]))
  /\ UNCHANGED <<events, prevEventMap, prevEventQueue, readerCount, writer,
                 recLog, pureVars>>

\* prevEventLock.RLock(): waits while a writer holds the lock or waits for it
RLock(h, pcNext) ==
  /\ writer = 0
  /\ readerCount' = readerCount + 1
  /\ hs' = [hs EXCEPT ![h].rl = @ + 1, ![h].pc = pcNext]

\* GetPrevEvent, line 200
GetPrevEventRLock(h) ==
  /\ hs[h].pc = "gp_rlock"
  /\ RLock(h, "gp_read")
  /\ UNCHANGED <<events, prevEventMap, prevEventQueue, writer, replies, recLog,
                 pureVars>>

\* GetPrevEventRead when RUnlock comes after the fetch: the read lock is
\* held across client.GetEvent
GetPrevEventReadKeepsLock(h) ==
  LET evt == events[h]
      roomMap == prevEventMap[evt.RoomID]
  IN /\ hs[h].pc = "gp_read"
     /\ IF ~roomMap.ok \/ roomMap.m[evt.Sender] = 0
          THEN hs' = [hs EXCEPT ![h].origEvt = 0, ![h].looked = TRUE, ![h].pc = "try"]
          ELSE hs' = [hs EXCEPT ![h].fetchId = roomMap.m[evt.Sender],
                                ![h].looked = TRUE, ![h].pc = "fetch"]
     /\ UNCHANGED <<events, prevEventMap, prevEventQueue, readerCount, writer,
                    replies, recLog, pureVars>>

\* GetPrevEvent, lines 201-210: the two early returns keep the read lock
GetPrevEventRead(h) ==
  LET evt == events[h]
      roomMap == prevEventMap[evt.RoomID]
  IN /\ hs[h].pc = "gp_read"
     /\ IF ~roomMap.ok \/ roomMap.m[evt.Sender] = 0
          THEN /\ hs' = [hs EXCEPT ![h].origEvt = 0, ![h].looked = TRUE,
                                   ![h].pc = "try"]
               /\ UNCHANGED readerCount
          ELSE /\ hs' = [hs EXCEPT ![h].fetchId = roomMap.m[evt.Sender],
                                   ![h].looked = TRUE,
                                   ![h].rl = @ - 1, ![h].pc = "fetch"]
               /\ readerCount' = readerCount - 1
     /\ UNCHANGED <<events, prevEventMap, prevEventQueue, writer, replies, recLog,
                    pureVars>>

\* client.GetEvent returns, at line 256 or line 212
Fetch(h) ==
  /\ hs[h].pc = "fetch"
  /\ \E got \in GetEvent(events[h].RoomID, hs[h].fetchId) :
       hs' = [hs EXCEPT ![h].origEvt = got, ![h].looked = TRUE, ![h].pc = "try"]
  /\ UNCHANGED <<events, prevEventMap, prevEventQueue, readerCount, writer, replies,
                 recLog, pureVars>>

\* TryReplaceEvent: whether the body of origEvt changes under the statement
Changes(sed, origEvt) == Exec(sed, events[origEvt].Body) # events[origEvt].Body

\* TryPrimary without the return after a rewrite: the fallback scan runs too
TryPrimaryFallsThrough(h) ==
  LET me == hs[h] IN
    /\ me.pc = "try"
    /\ IF me.origEvt # 0 /\ Changes(me.sed, me.origEvt)
         THEN Reply(h, me.origEvt, Exec(me.sed, events[me.origEvt].Body))
         ELSE UNCHANGED replies
    /\ hs' = [hs EXCEPT ![h].pc = "tr_rlock"]
    /\ UNCHANGED <<events, prevEventMap, prevEventQueue, readerCount, writer,
                   recLog, pureVars>>

\* TryPrimary when an absent candidate ends the resolution: no fallback scan
TryPrimaryStopsOnAbsent(h) ==
  LET me == hs[h] IN
    /\ me.pc = "try"
    /\ IF me.origEvt = 0
         THEN /\ hs' = [hs EXCEPT ![h].result = "Continue", ![h].pc = "reg"]
              /\ UNCHANGED replies
         ELSE IF Changes(me.sed, me.origEvt)
           THEN /\ Reply(h, me.origEvt, Exec(me.sed, events[me.origEvt].Body))
                /\ hs' = [hs EXCEPT ![h].result = "StopEventPropagation", ![h].pc = "reg"]
           ELSE /\ hs' = [hs EXCEPT ![h].pc = "tr_rlock"]
                /\ UNCHANGED replies
    /\ UNCHANGED <<events, prevEventMap, prevEventQueue, readerCount, writer,
                   recLog, pureVars>>

\* MessageHandler, lines 260-262: the primary candidate
TryPrimary(h) ==
  LET me == hs[h] IN
    /\ me.pc = "try"
    /\ IF me.origEvt # 0 /\ Changes(me.sed, me.origEvt)
         THEN /\ Reply(h, me.origEvt, Exec(me.sed, events[me.origEvt].Body))
              /\ hs' = [hs EXCEPT ![h].result = "StopEventPropagation", ![h].pc = "reg"]
         ELSE /\ hs' = [hs EXCEPT ![h].pc = "tr_rlock"]
              /\ UNCHANGED replies
    /\ UNCHANGED <<events, prevEventMap, prevEventQueue, readerCount, writer,
                   recLog, pureVars>>

\* TryReplaceRecentEvent, line 225
RecentRLock(h) ==
  /\ hs[h].pc = "tr_rlock"
  /\ RLock(h, "tr_read")
  /\ UNCHANGED <<events, prevEventMap, prevEventQueue, writer, replies, recLog,
                 pureVars>>

\* TryReplaceRecentEvent, lines 226-230: the early return keeps the read lock
RecentRead(h) ==
  /\ hs[h].pc = "tr_read"
  /\ IF ~prevEventQueue[events[h].RoomID].ok
       THEN /\ hs' = [hs EXCEPT ![h].looked = TRUE, ![h].result = "Continue",
                                ![h].pc = "reg"]
            /\ UNCHANGED readerCount
       ELSE /\ hs' = [hs EXCEPT ![h].looked = TRUE, ![h].rl = @ - 1, ![h].pc = "tr_ptr"]
            /\ readerCount' = readerCount - 1
  /\ UNCHANGED <<events, prevEventMap, prevEventQueue, writer, replies, recLog,
                 pureVars>>

\* TryReplaceRecentEvent, lines 232-233, read without the lock; snap keeps
\* the IDs the ring holds at this moment, when the scan starts
RecentPtr(h) ==
  /\ hs[h].pc = "tr_ptr"
  /\ hs' = [hs EXCEPT ![h].origPtr = prevEventQueue[events[h].RoomID].Ptr,
                      ![h].i = ListLen, ![h].pc = "scan",
                      ![h].snap = {prevEventQueue[events[h].RoomID].List[k] :
                                     k \in 1..ListLen} \ {0}]
  /\ UNCHANGED <<events, prevEventMap, prevEventQueue, readerCount, writer, replies,
                 recLog, pureVars>>

\* the ring slot iteration i of the scan reads
ScanSlot(i, origPtr) == (i + origPtr) % ListLen

\* RecentScan when a rewrite by the scan is reported as Continue
RecentScanContinues(h) ==
  LET me == hs[h]
      origEvt == prevEventQueue[events[h].RoomID].List[ScanSlot(me.i, me.origPtr) + 1]
      tried == IF origEvt # 0 THEN Append(me.tried, origEvt) ELSE me.tried
  IN /\ me.pc = "scan"
     /\ IF origEvt # 0 /\ Changes(me.sed, origEvt)
          THEN /\ Reply(h, origEvt, Exec(me.sed, events[origEvt].Body))
               /\ hs' = [hs EXCEPT ![h].tried = tried,
                                   ![h].result = "Continue", ![h].pc = "reg"]
          ELSE /\ UNCHANGED replies
               /\ IF me.i - 1 > 0
                    THEN hs' = [hs EXCEPT ![h].tried = tried, ![h].i = me.i - 1]
                    ELSE hs' = [hs EXCEPT ![h].tried = tried, ![h].i = 0,
                                          ![h].result = "Continue", ![h].pc = "reg"]
     /\ UNCHANGED <<events, prevEventMap, prevEventQueue, readerCount, writer,
                    recLog, pureVars>>

\* TryReplaceRecentEvent, lines 234-240: one iteration of the loop, reading
\* the slot without the lock
RecentScan(h) ==
  LET me == hs[h]
      origEvt == prevEventQueue[events[h].RoomID].List[ScanSlot(me.i, me.origPtr) + 1]
      tried == IF origEvt # 0 THEN Append(me.tried, origEvt) ELSE me.tried
  IN /\ me.pc = "scan"
     /\ IF origEvt # 0 /\ Changes(me.sed, origEvt)
          THEN /\ Reply(h, origEvt, Exec(me.sed, events[origEvt].Body))
               /\ hs' = [hs EXCEPT ![h].tried = tried,
                                   ![h].result = "StopEventPropagation", ![h].pc = "reg"]
          ELSE /\ UNCHANGED replies
               /\ IF me.i - 1 > 0
                    THEN hs' = [hs EXCEPT ![h].tried = tried, ![h].i = me.i - 1]
                    ELSE hs' = [hs EXCEPT ![h].tried = tried, ![h].i = 0,
                                          ![h].result = "Continue", ![h].pc = "reg"]
     /\ UNCHANGED <<events, prevEventMap, prevEventQueue, readerCount, writer,
                    recLog, pureVars>>

\* RegisterLock when Lock() does not exclude another writer
RegisterLockNoExclusion(h) ==
  /\ hs[h].pc = "reg"
  /\ writer' = h
  /\ hs' = [hs EXCEPT ![h].pc = "reg_wait"]
  /\ UNCHANGED <<events, prevEventMap, prevEventQueue, readerCount, replies, recLog,
                 pureVars>>

\* RegisterPrevEvent, line 181, first half of Lock(): the call takes the
\* writers' mutex and announces itself, which holds back new readers
RegisterLock(h) ==
  /\ hs[h].pc = "reg"
  /\ writer = 0
  /\ writer' = h
  /\ hs' = [hs EXCEPT ![h].pc = "reg_wait"]
  /\ UNCHANGED <<events, prevEventMap, prevEventQueue, readerCount, replies, recLog,
                 pureVars>>

\* EventQueue.Add, line 50
AddStore(queue, id) == [queue EXCEPT !.List[queue.Ptr + 1] = id]

\* AddAdvance without the modulo: the cursor runs past the last slot
AddAdvanceNoWrap(queue) == [queue EXCEPT !.Ptr = queue.Ptr + 1]

\* EventQueue.Add, line 51
AddAdvance(queue) == [queue EXCEPT !.Ptr = (queue.Ptr + 1) % ListLen]

\* the author map when an entry, once set, is not overwritten
RecordAuthorKeepFirst(roomMap, sender, id) ==
  [ok |-> TRUE,
   m |-> IF roomMap.m[sender] # 0 THEN roomMap.m ELSE [roomMap.m EXCEPT ![sender] = id]]

\* the author map after line 187
RecordAuthor(roomMap, sender, id) == [ok |-> TRUE, m |-> [roomMap.m EXCEPT ![sender] = id]]

\* RegisterWrite with one history shared by all rooms: the record is written
\* into the author map and the ring of every room
RegisterWriteAllRooms(h) ==
  LET evt == events[h] IN
    /\ hs[h].pc = "reg_wait"
    /\ writer = h
    /\ readerCount = 0
    /\ prevEventMap' = [r \in Rooms |->
                          RecordAuthor(prevEventMap[r], evt.Sender, evt.ID)]
    /\ prevEventQueue' = [r \in Rooms |->
                            AddStore([prevEventQueue[r] EXCEPT !.ok = TRUE], evt.ID)]
    /\ recLog' = [recLog EXCEPT ![evt.RoomID] = Append(@, evt.ID)]
    /\ hs' = [hs EXCEPT ![h].pc = "reg_ptr"]
    /\ UNCHANGED <<events, readerCount, writer, replies, pureVars>>

\* RegisterPrevEvent, lines 181-194 and line 50: Lock() returns once the
\* readers have left; the author map entry, the lazily created queue and the
\* ring slot are written
RegisterWrite(h) ==
  LET evt == events[h] IN
    /\ hs[h].pc = "reg_wait"
    /\ writer = h
    /\ readerCount = 0
    /\ prevEventMap' = [prevEventMap EXCEPT ![evt.RoomID] =
                          RecordAuthor(@, evt.Sender, evt.ID)]
    /\ prevEventQueue' = [prevEventQueue EXCEPT ![evt.RoomID] =
                            AddStore([@ EXCEPT !.ok = TRUE], evt.ID)]
    /\ recLog' = [recLog EXCEPT ![evt.RoomID] = Append(@, evt.ID)]
    /\ hs' = [hs EXCEPT ![h].pc = "reg_ptr"]
    /\ UNCHANGED <<events, readerCount, writer, replies, pureVars>>

\* line 51 and RegisterPrevEvent, line 196: the cursor advances, Unlock()
RegisterAdvance(h) ==
  /\ hs[h].pc = "reg_ptr"
  /\ prevEventQueue' = [prevEventQueue EXCEPT ![events[h].RoomID] = AddAdvance(@)]
  /\ writer' = 0
  /\ hs' = [hs EXCEPT ![h].pc = "done"]
  /\ UNCHANGED <<events, prevEventMap, readerCount, replies, recLog, pureVars>>

Init == InitHandlers /\ InitPureIdle

\* a step of some call in progress
HandlerNext ==
  \/ \E h \in Handlers : Start(h)
  \/ \E h \in Handlers : GetPrevEventRLock(h)
  \/ \E h \in Handlers : GetPrevEventRead(h)
  \/ \E h \in Handlers : Fetch(h)
  \/ \E h \in Handlers : TryPrimary(h)
  \/ \E h \in Handlers : RecentRLock(h)
  \/ \E h \in Handlers : RecentRead(h)
  \/ \E h \in Handlers : RecentPtr(h)
  \/ \E h \in Handlers : RecentScan(h)
  \/ \E h \in Handlers : RegisterLock(h)
  \/ \E h \in Handlers : RegisterWrite(h)
  \/ \E h \in Handlers : RegisterAdvance(h)

Next == Deliver \/ HandlerNext

Spec == Init /\ [][Next]_vars

NextSeq == DeliverSeq \/ HandlerNext

SeqSpec == Init /\ [][NextSeq]_vars

(***************************************************************************)
(* Properties.                                                             *)
(***************************************************************************)
\* the replies call h emitted
RepliesBy(h) == {k \in 1..Len(replies) : replies[k].by = h}

\* the IDs recorded in room r
RecordedIn(r) == {recLog[r][k] : k \in 1..Len(recLog[r])}

\* the calls that have parsed their event
Parsed_Handlers == {h \in Handlers : hs[h].pc # "start"}

\* C1: a command whose pattern does not compile gets exactly one reply, to
\* the incoming message, carrying the compiler's error text; no prior message
\* is replied to and no candidate is looked up or scanned.
C1_MalformedPatternReplied ==
  \A h \in Parsed_Handlers :
    ParseEvent(events[h]).err # <<>> =>
      /\ Cardinality(RepliesBy(h)) = 1
      /\ \A k \in RepliesBy(h) :
           /\ replies[k].to = events[h].ID
           /\ replies[k].body = ParseEvent(events[h]).err
           /\ replies[k].body # <<>>
      /\ ~hs[h].looked
      /\ hs[h].tried = <<>>

\* whether call h can take its next step: a call waits only for the lock
Blocked(h) ==
  \/ hs[h].pc \in {"gp_rlock", "tr_rlock", "reg"} /\ writer # 0
  \/ hs[h].pc = "reg_wait" /\ readerCount # 0

\* C2: every call of MessageHandler returns, with its event recorded: a call
\* that has returned has its event in the history, and while some call has
\* not returned some call can take a step.
C2_HandlerReturnsAndRecords ==
  /\ \A h \in Handlers :
       hs[h].pc = "done" =>
         /\ events[h].ID \in RecordedIn(events[h].RoomID)
         /\ prevEventMap[events[h].RoomID].ok
         /\ prevEventQueue[events[h].RoomID].ok
  /\ \/ \A h \in Handlers : hs[h].pc = "done"
     \/ \E h \in Handlers : hs[h].pc # "done" /\ ~Blocked(h)

\* C3: once GetPrevEvent or TryReplaceRecentEvent has returned, on any path,
\* the call holds no read lock: it holds one only between its RLock and the
\* reads that follow.
C3_ReadLockReleasedOnReturn ==
  \A h \in Handlers : hs[h].pc \notin {"gp_read", "tr_read"} => hs[h].rl = 0

\* the last n elements of seq, newest first
RECURSIVE NewestFirst(_, _)
NewestFirst(seq, n) ==
  IF n = 0 \/ seq = <<>> THEN <<>>
  ELSE <<seq[Len(seq)]>> \o NewestFirst(SubSeq(seq, 1, Len(seq) - 1), n - 1)

IsPrefix(a, b) == Len(a) <= Len(b) /\ SubSeq(b, 1, Len(a)) = a

\* C4: with one call at a time, the fallback scan tries the recorded
\* messages of the room newest first, the last ListLen of them at most; a scan
\* that ends without a rewrite has tried them all.
C4_ScanNewestFirst ==
  \A h \in Handlers :
    LET newest == NewestFirst(recLog[events[h].RoomID], ListLen) IN
      /\ hs[h].pc \in {"scan", "reg", "reg_wait"} => IsPrefix(hs[h].tried, newest)
      /\ (hs[h].pc \in {"reg", "reg_wait"} /\ hs[h].result = "Continue"
            /\ ~hs[h].sed.nil /\ prevEventQueue[events[h].RoomID].ok)
           => hs[h].tried = newest

\* the positions of the records of user u in room r
RecordsOf(r, u) == {k \in 1..Len(recLog[r]) : events[recLog[r][k]].Sender = u}

\* C5: the author map entry of (room, author) is the ID of that author's
\* most recently recorded message in that room, and is absent when the author
\* has none there.
C5_LastByAuthor ==
  \A r \in Rooms, u \in Users :
    IF RecordsOf(r, u) = {}
      THEN prevEventMap[r].m[u] = 0
      ELSE /\ prevEventMap[r].ok
           /\ prevEventMap[r].m[u] =
                recLog[r][CHOOSE k \in RecordsOf(r, u) : \A j \in RecordsOf(r, u) : j <= k]

\* C5 witness: an author with two records in a room whose latest record is
\* by someone else
C5_Witness ==
  \E r \in Rooms, u \in Users :
    /\ Cardinality(RecordsOf(r, u)) >= 2
    /\ Len(recLog[r]) \notin RecordsOf(r, u)

\* C6: one call emits at most one reply; after a rewrite exactly one, to one
\* delivered message, carrying Exec's output for that message's body, which
\* differs from the body; a call that returns Continue emitted none.
C6_AtMostOneReply ==
  \A h \in Handlers :
    /\ Cardinality(RepliesBy(h)) <= 1
    /\ (hs[h].result = "StopEventPropagation" /\ hs[h].err = <<>>) =>
         /\ Cardinality(RepliesBy(h)) = 1
         /\ \A k \in RepliesBy(h) :
              /\ replies[k].to \in 1..Len(events)
              /\ replies[k].body = Exec(hs[h].sed, events[replies[k].to].Body)
              /\ replies[k].body # events[replies[k].to].Body
    /\ hs[h].result \in {"", "Continue"} => RepliesBy(h) = {}

\* C6 witness: one call rewrote a message found by the fallback scan, and
\* another scanned the ring and found no target
C6_Witness ==
  /\ \E h \in Handlers :
       /\ hs[h].result = "StopEventPropagation"
       /\ hs[h].tried # <<>>
       /\ Cardinality(RepliesBy(h)) = 1
  /\ \E h \in Handlers :
       /\ hs[h].result = "Continue"
       /\ ~hs[h].sed.nil
       /\ hs[h].tried # <<>>

\* C7: a well-formed short-form command s<D>P<D>R<D>F with P compiling parses
\* to the statement (P, R, global iff F holds a g), from the host's groups and
\* from the raw text alike.
C7_ShortFormParses ==
  (pstage # "input" /\ pin.form = "short" /\ pin.path \in {"raw", "host"}
     /\ RegexpCompile(pin.P).ok) =>
    /\ ~pout.res.sed.nil
    /\ pout.res.err = <<>>
    /\ pout.res.sed.Find = RegexpCompile(pin.P).prog
    /\ pout.res.sed.Replace = pin.R
    /\ pout.res.sed.Global = ContainsRune(pin.F, "g")

\* whether text is made of letters only
IsLetters(t) == \A k \in 1..Len(t) : \E j \in 1..26 : t[k] \in {Lower[j], Upper[j]}

\* whether body holds the pattern text in another letter case only
OnlyInOtherCase(pattern, body) ==
  /\ pattern # <<>>
  /\ IsLetters(pattern)
  /\ Index(body, pattern) = -1
  /\ Index(ToLower(body), ToLower(pattern)) # -1

\* C8: with an i among the flags the statement matches without regard to
\* case, so a body that holds the pattern text in another case only is
\* changed; without an i it is left as it is.
C8_CaseInsensitiveFlag ==
  (pstage = "executed" /\ OnlyInOtherCase(pin.P, pin.target) /\ pin.R # pin.P) =>
    IF ContainsRune(pin.F, "i")
      THEN pout.out # pin.target
      ELSE pout.out = pin.target

\* the leftmost match of the input's pattern in the input's body
PinFirst == FindFrom(PinSed.Find, pin.body, 0)

\* C9: a statement that is not global and matches the body replaces the
\* leftmost match by the rendered replacement and leaves the text before and
\* after it as it is.
C9_OnlyLeftmostReplaced ==
  (pstage = "executed" /\ ~pin.Global /\ PinFirst # <<>>) =>
    pout = Slice(pin.body, 0, PinFirst[1])
             \o Expand(pin.Replace, 1, Slice(pin.body, PinFirst[1], PinFirst[2]))
             \o Slice(pin.body, PinFirst[2], Len(pin.body))

RECURSIVE EveryMatchReplaced(_, _, _, _)
\* body from offset p on with every match, left to right and not
\* overlapping, replaced by the rendered replacement
EveryMatchReplaced(prog, body, repl, p) ==
  IF p > Len(body) THEN <<>>
  ELSE LET e == MatchAt(prog, body, p)
           rest == IF p < Len(body)
                     THEN <<body[p + 1]>> \o EveryMatchReplaced(prog, body, repl, p + 1)
                     ELSE <<>>
       IN IF e = -1 THEN rest
          ELSE IF e = p THEN Expand(repl, 1, <<>>) \o rest
          ELSE Expand(repl, 1, Slice(body, p, e)) \o EveryMatchReplaced(prog, body, repl, e)

\* C10: a global statement replaces every non-overlapping match, left to
\* right; a statement, global or not, that matches nowhere returns the body.
C10_GlobalReplacesEveryMatch ==
  pstage = "executed" =>
    /\ pin.Global => pout = EveryMatchReplaced(PinSed.Find, pin.body, pin.Replace, 0)
    /\ PinFirst = <<>> => pout = pin.body

\* C10 witness: a global statement ran on a body with two matches apart, and
\* changed it
C10_Witness ==
  /\ pstage = "executed"
  /\ pin.Global
  /\ PinFirst # <<>>
  /\ PinFirst[2] > PinFirst[1]
  /\ FindFrom(PinSed.Find, pin.body, PinFirst[2] + 1) # <<>>
  /\ pout # pin.body

\* the ID of the most recent record of user u in room r, or 0
LastBy(r, u) ==
  IF RecordsOf(r, u) = {} THEN 0
  ELSE recLog[r][CHOOSE k \in RecordsOf(r, u) : \A j \in RecordsOf(r, u) : j <= k]

\* the places of a call inside the fallback scan
ScanPlaces == {"tr_rlock", "tr_read", "tr_ptr", "scan"}

\* what C11 asks of a step of call h
C11_Step(h) ==
  LET evt == events[h]
      me == hs[h]
      me2 == hs'[h]
  IN /\ (me.pc = "start" /\ me2.pc \notin {"start", "reg"}) =>
          IF evt.ReplyTo > 0
            THEN me2.pc = "fetch" /\ me2.fetchId = evt.ReplyTo
            ELSE me2.pc = "gp_rlock"
     /\ me2.pc \in {"gp_rlock", "gp_read"} => evt.ReplyTo = 0
     /\ (me.pc = "gp_read" /\ me2.pc # "gp_read") =>
          IF LastBy(evt.RoomID, evt.Sender) = 0
            THEN me2.pc = "try" /\ me2.origEvt = 0
            ELSE me2.pc = "fetch" /\ me2.fetchId = LastBy(evt.RoomID, evt.Sender)
     /\ (me.pc = "fetch" /\ me2.pc # "fetch") =>
          me2.pc = "try" /\ me2.origEvt \in {0, me.fetchId}
     /\ (me.pc = "try" /\ me2.pc # "try" /\ me.origEvt # 0
           /\ Changes(me.sed, me.origEvt)) =>
          /\ replies' = Append(replies, [by |-> h, to |-> me.origEvt,
                                         body |-> Exec(me.sed, events[me.origEvt].Body)])
          /\ me2.pc = "reg"
          /\ me2.result = "StopEventPropagation"
          /\ me2.tried = <<>>
     /\ me2.pc \in ScanPlaces =>
          ~(me2.origEvt # 0 /\ Changes(me2.sed, me2.origEvt))

\* C11: a command with a reply-to reference fetches the replied-to message
\* and never reads the sender's last-message entry; a command without one
\* fetches the sender's most recent record of the room; a primary candidate
\* whose body changes gets the reply, and the fallback scan is not entered.
C11_PrimaryCandidate == [][\A h \in Handlers : C11_Step(h)]_vars

\* C11 witness: one call rewrote the message it replied to, another rewrote
\* its sender's last message, neither scanned the ring
C11_Witness ==
  /\ \E h \in Handlers :
       /\ events[h].ReplyTo > 0
       /\ hs[h].tried = <<>>
       /\ \E k \in RepliesBy(h) : replies[k].to = events[h].ReplyTo
  /\ \E h \in Handlers :
       /\ events[h].ReplyTo = 0
       /\ hs[h].tried = <<>>
       /\ \E k \in RepliesBy(h) :
            /\ replies[k].to = hs[h].fetchId
            /\ events[replies[k].to].Sender = events[h].Sender

\* the IDs in the ring of room r
RingIDs(r) == {prevEventQueue[r].List[k] : k \in 1..ListLen} \ {0}

\* the IDs in the author map of room r
MapIDs(r) == {prevEventMap[r].m[u] : u \in Users} \ {0}

\* C12: until RegisterPrevEvent writes, at the end of the call, the event of
\* a call is in no author map and in no ring, whatever the other calls do;
\* no reply of a call is addressed to the call's own event.
C12_RecordAfterAttempts ==
  \A h \in Handlers :
    /\ hs[h].pc \notin {"reg_ptr", "done"} =>
         \A r \in Rooms :
           /\ events[h].ID \notin MapIDs(r)
           /\ events[h].ID \notin RingIDs(r)
           /\ events[h].ID \notin RecordedIn(r)
    /\ \A k \in RepliesBy(h) : replies[k].to # events[h].ID

\* C12 witness: a command has emitted its reply and is not yet recorded,
\* while a message delivered after it is already recorded in the same room
C12_Witness ==
  \E h \in Handlers, h2 \in Handlers :
    /\ h2 > h
    /\ events[h2].RoomID = events[h].RoomID
    /\ hs[h].pc = "reg"
    /\ RepliesBy(h) # {}
    /\ hs[h2].pc = "done"
    /\ events[h2].ID \in RingIDs(events[h].RoomID)
    /\ events[h].ID \notin RingIDs(events[h].RoomID)

FetchAbsent(h) ==
  /\ hs[h].fetchId # 0
  /\ hs[h].origEvt = 0
  /\ hs[h].pc \notin {"start", "gp_rlock", "gp_read", "fetch"}

\* after an absent fetch: a reply of the call goes to the candidate the scan
\* tried last, with Exec's output for it, and no candidate tried before it
\* would have changed
C14_AfterAbsent(h) ==
  FetchAbsent(h) =>
    /\ \A k \in RepliesBy(h) :
         /\ hs[h].tried # <<>>
         /\ replies[k].to = hs[h].tried[Len(hs[h].tried)]
         /\ replies[k].body = Exec(hs[h].sed, events[replies[k].to].Body)
    /\ \A j \in 1..Len(hs[h].tried) :
         Changes(hs[h].sed, hs[h].tried[j]) =>
           j = Len(hs[h].tried) /\ RepliesBy(h) # {}

\* C14: when the fetch of the primary candidate returns absent, the call
\* emits nothing and enters the fallback scan; the first ring candidate the
\* scan finds changed by the statement is the one replied to.
C14_AbsentFallsBack ==
  /\ [][\A h \in Handlers :
          (hs[h].pc = "try" /\ hs[h].origEvt = 0 /\ hs'[h].pc # "try") =>
            hs'[h].pc = "tr_rlock" /\ replies' = replies]_vars
  /\ [](\A h \in Handlers : C14_AfterAbsent(h))

\* C14 witness: after an absent fetch the scan passed over a candidate that
\* does not change and replied to the next one
C14_Witness ==
  \E h \in Handlers :
    /\ FetchAbsent(h)
    /\ Len(hs[h].tried) >= 2
    /\ \E k \in RepliesBy(h) : replies[k].to = hs[h].tried[Len(hs[h].tried)]

\* C15: a call inside client.GetEvent, for the replied-to message or for the
\* sender's last message, holds neither a read lock nor the write lock.
C15_NoLockDuringFetch ==
  \A h \in Handlers :
    hs[h].pc = "fetch" => hs[h].rl = 0 /\ writer # h

\* C15 witness: a call that took and released the read lock in GetPrevEvent
\* is inside the fetch while another call holds the write lock
C15_Witness ==
  \E h \in Handlers, h2 \in Handlers :
    /\ hs[h].pc = "fetch"
    /\ events[h].ReplyTo = 0
    /\ hs[h].looked
    /\ hs[h2].pc = "reg_ptr"
    /\ writer = h2

\* the content of ring slot s after the records of log, made one at a time
SlotAfter(log, s) ==
  LET ks == {k \in 1..Len(log) : (k - 1) % ListLen = s} IN
    IF ks = {} THEN 0 ELSE log[CHOOSE k \in ks : \A j \in ks : j <= k]

\* whether a record into room r has stored its slot and not yet moved the cursor
MidAdd(r) == \E h \in Handlers : hs[h].pc = "reg_ptr" /\ events[h].RoomID = r

\* C16: however the calls interleave, the history is what the records made
\* one at a time, in the order of recLog, leave behind: no record is lost,
\* the map and the ring of a room exist from its first record on and are
\* never replaced, and one record at a time writes its entry and its slot.
C16_RecordsLinearizable ==
  /\ \A r \in Rooms :
       LET n == Len(recLog[r]) IN
         /\ prevEventMap[r].ok = (n > 0)
         /\ prevEventQueue[r].ok = (n > 0)
         /\ prevEventQueue[r].Ptr = (IF MidAdd(r) THEN n - 1 ELSE n) % ListLen
         /\ \A s \in 0..(ListLen - 1) :
              prevEventQueue[r].List[s + 1] = SlotAfter(recLog[r], s)
         /\ \A u \in Users : prevEventMap[r].m[u] = LastBy(r, u)
  /\ Cardinality({h \in Handlers : hs[h].pc = "reg_ptr"}) <= 1
  /\ \A h \in Handlers :
       /\ hs[h].pc = "reg_ptr" => writer = h
       /\ hs[h].pc \in {"reg_ptr", "done"} =>
            Cardinality({k \in 1..Len(recLog[events[h].RoomID]) :
                           recLog[events[h].RoomID][k] = events[h].ID}) = 1

\* C16 witness: two calls record into a room that has a record already: one
\* has stored its slot, the other waits for the lock
C16_Witness ==
  \E h \in Handlers, h2 \in Handlers :
    /\ h # h2
    /\ events[h].RoomID = events[h2].RoomID
    /\ hs[h].pc = "reg_ptr"
    /\ hs[h2].pc = "reg"
    /\ Len(recLog[events[h].RoomID]) >= 2

\* C17: the scan runs over the ring as it was when the scan started: every
\* message a scan tries was in the ring at that moment, also when other calls
\* record into the room meanwhile, and no message is tried twice.
C17_ScanIsSnapshot ==
  \A h \in Handlers :
    /\ \A j \in 1..Len(hs[h].tried) : hs[h].tried[j] \in hs[h].snap
    /\ \A j \in 1..Len(hs[h].tried), k \in 1..Len(hs[h].tried) :
         hs[h].tried[j] = hs[h].tried[k] => j = k

\* whether the step changes the history of room r
HistoryChanges(r) ==
  \/ prevEventMap'[r] # prevEventMap[r]
  \/ prevEventQueue'[r] # prevEventQueue[r]

\* C18: a step that changes the author map or the ring of a room is a step
\* of RegisterPrevEvent for an event of that room, and leaves the entries of
\* the room's other authors as they are; a reply found through the sender's
\* last message or through the scan goes to a message of the command's room.
C18_RoomsAreSeparate ==
  /\ [][\A r \in Rooms :
          HistoryChanges(r) =>
            \E h \in Handlers :
              /\ events[h].RoomID = r
              /\ hs[h].pc \in {"reg_wait", "reg_ptr"}
              /\ hs'[h].pc # hs[h].pc
              /\ \A u \in Users \ {events[h].Sender} :
                   prevEventMap'[r].m[u] = prevEventMap[r].m[u]]_vars
  /\ [](\A h \in Handlers : \A k \in RepliesBy(h) :
          (events[h].ReplyTo = 0 \/ hs[h].tried # <<>>) =>
            events[replies[k].to].RoomID = events[h].RoomID)

\* C18 witness: a command without reply-to in the second room was resolved
\* while the first room holds a record the statement would change
C18_Witness ==
  \E h \in Handlers :
    /\ events[h].ReplyTo = 0
    /\ events[h].RoomID = "r2"
    /\ RepliesBy(h) # {}
    /\ \E id \in RecordedIn("r1") : Changes(hs[h].sed, id)

\* the places of a call whose result is decided: RegisterPrevEvent runs as
\* MessageHandler returns
Returning == {"reg", "reg_wait", "reg_ptr", "done"}

\* C19: MessageHandler returns StopEventPropagation exactly when the call
\* emitted a reply; when it emitted none, the event being no command or no
\* target being found, it returns Continue.
C19_StopIffReplied ==
  \A h \in Handlers :
    hs[h].pc \in Returning =>
      /\ hs[h].result \in {"StopEventPropagation", "Continue"}
      /\ hs[h].result = "StopEventPropagation" <=> RepliesBy(h) # {}
      /\ hs[h].sed.nil => hs[h].result = "Continue"

\* C19 witness: three calls have returned: one for an event that is no
\* command, one for a command that found no target, one that replied
C19_Witness ==
  \E h1 \in Handlers, h2 \in Handlers, h3 \in Handlers :
    /\ hs[h1].pc = "done" /\ hs[h2].pc = "done" /\ hs[h3].pc = "done"
    /\ hs[h1].sed.nil /\ hs[h1].result = "Continue"
    /\ ~hs[h2].sed.nil /\ hs[h2].result = "Continue" /\ RepliesBy(h2) = {}
    /\ hs[h3].result = "StopEventPropagation" /\ RepliesBy(h3) # {}

\* the smaller of two numbers
Min(a, b) == IF a <= b THEN a ELSE b

\* the number of slots of the ring of room r that hold a message
NonEmptySlots(r) == Cardinality({k \in 1..ListLen : prevEventQueue[r].List[k] # 0})

\* the rings are well formed, and the scan's indices are in range
RingsWellFormed ==
  /\ \A r \in Rooms :
       /\ DOMAIN prevEventQueue[r].List = 1..ListLen
       /\ prevEventQueue[r].Ptr \in 0..(ListLen - 1)
       /\ NonEmptySlots(r) = Min(Len(recLog[r]), ListLen)
  /\ \A h \in Handlers :
       hs[h].pc = "scan" =>
         /\ hs[h].i \in 1..ListLen
         /\ hs[h].origPtr \in 0..(ListLen - 1)
         /\ ScanSlot(hs[h].i, hs[h].origPtr) \in 0..(ListLen - 1)

\* what a step does to the ring of room r: Add stores into the slot at Ptr
\* and nothing else, then moves Ptr on by one modulo ListLen
AddStep(r) ==
  LET queue == prevEventQueue[r]
      queue2 == prevEventQueue'[r]
  IN /\ queue2.List # queue.List =>
          /\ queue2.Ptr = queue.Ptr
          /\ queue2.List[queue.Ptr + 1] # 0
          /\ \A k \in 1..ListLen : k # queue.Ptr + 1 => queue2.List[k] = queue.List[k]
     /\ queue2.Ptr # queue.Ptr =>
          /\ queue2.Ptr = (queue.Ptr + 1) % ListLen
          /\ queue2.List = queue.List

\* C20: every ring has ListLen slots and a cursor Ptr in 0..ListLen-1; an Add
\* writes the slot at Ptr and no other and advances Ptr by one modulo
\* ListLen, so that after k records min(k, ListLen) slots hold a message;
\* every index the scan computes is a slot of the ring.
C20_RingInvariants ==
  /\ []RingsWellFormed
  /\ [][\A r \in Rooms : AddStep(r)]_vars

\* C20 witness: the ring is full and its cursor has wrapped around, and a
\* scan is under way in it
C20_Witness ==
  \E h \in Handlers :
    /\ hs[h].pc = "scan"
    /\ hs[h].i < ListLen
    /\ Len(recLog[events[h].RoomID]) > ListLen
    /\ prevEventQueue[events[h].RoomID].Ptr = 1
    /\ NonEmptySlots(events[h].RoomID) = ListLen

=============================================================================
